---- MODULE Spec2Model ----
(***************************************************************************)
(* A model of the Pi Pico OneWire interface (Code/OneWire.c, OneWire.h,    *)
(* DS18B20.c): the bit-banged ROM search (oneWire_search_rom and its       *)
(* direct-pin primitives) and the PIO transaction engine (the commands put *)
(* into the Tx FIFO, the responses taken from the Rx FIFO, oneWire_CRC).   *)
(* The bus with its devices and the PIO state machine are the environment. *)
(*                                                                         *)
(* Spec is discovery, the handoff and the write side of the engine over    *)
(* unbounded call sequences.  The read side multiplies that state space    *)
(* beyond what can be explored, so it runs under its own specifications:   *)
(* CallSpec (one call of any engine operation from every FIFO occupancy),  *)
(* DataSpec (one read transaction with a device that sends a block),       *)
(* CrcSpec (oneWire_CRC alone) and PostSpec (posted reads within the       *)
(* documented limits, with the PIO and the spinning thread weakly fair).   *)
(* PinSpec runs the direct-pin primitives one GPIO call at a time; in the  *)
(* other specifications a primitive is one step.                           *)
(*                                                                         *)
(* ROM ids are RomBits wide here (64 in the source): every loop over the   *)
(* 64 bit positions runs over RomBits positions, and an id is a number in  *)
(* 0 .. 2^RomBits - 1 whose bit 0 is the first bit on the wire.            *)
(***************************************************************************)
EXTENDS Integers, Sequences, FiniteSets, TLC

\* ------------------------------------------------------------------ bounds
RomBits == 3
MaxDevices == 3
MaxFaultDevices == 2
MaxNum == 17
MaxBits == 33
MaxPayload == 2
MaxCrcLen == 3

\* ------------------------------------------------------- program constants
ONE_WIRE_FIFODEPTH == 4
ONE_WIRE_NO_ERROR == 0
ONE_WIRE_NOT_ENOUGH_TX_FIFO_SPACE == -2
ONE_WIRE_SEARCH_ROM_FAILURE == -5
PRESENCE_SAMPLES == 8
STATUS_RANGE == 65536
SEARCH_ROM_CMD == 240
ONE_WIRE_RESET_PULSE == 500
ONE_WIRE_PRESENCE_WAIT == 500
ONE_WIRE_PRESENCE_CT == 30
ONE_WIRE_WRITE_0 == 60
ONE_WIRE_POST_WRITE_0 == 5
ONE_WIRE_WRITE_1 == 5
ONE_WIRE_POST_WRITE_1 == 60
ONE_WIRE_READ_PULSE == 4
ONE_WIRE_READ_SAMPLE == 8
ONE_WIRE_POST_READ == 53
RESET_WORD == 2
WAIT_FOR_IDLE_WORD == 0
ONE_WIRE_POSSIBLE_FIFO_OVERFLOW == -1
ONE_WIRE_NOT_ENOUGH_DATA_IN_RX_FIFO == -3
ONE_WIRE_READ_CRC_FAILURE == -4
ONE_WIRE_ILLEGAL_DATA_SIZE_REQ == -6
WORD_BITS == 32
MAX_OUTSTANDING_READS == 4
CRC_PXOR == 24

VARIABLES
    mode,         \* who owns the pin: "Discovery" (GPIO/SIO) or "Offloaded" (PIO)
    owpInit,      \* owp holds a claimed, running PIO state machine
    present,      \* the ROM ids of the devices on the bus
    busChanged,   \* a device has left the bus since startup
    cap,          \* number of entries of the caller's devs[] array
    devs,         \* the entries of devs[] written by the running/last search, in order
    oob,          \* the search stored to devs[k] with k >= cap
    pc,           \* position of the control thread
    call,         \* the operation called last
    ret,          \* its return value (meaningful when pc = "idle")
    nextdev, current, discrepancy, bit,   \* locals of oneWire_search_rom
    sel,          \* devices still taking part in the current search pass
    presenceSeen, \* the line was low at a sample point of the last reset
    nResets, nCmds, nBitReads, nBitWrites, \* what the search did on the line
    steer,        \* the bits passed to oneWire_write_bitBB in the current pass
    pinDir,       \* direction of the pin as set by gpio_set_dir: "in" or "out"
    gpio,         \* the GPIO calls a running direct-pin primitive has still to make
    prev,         \* result of the search that returned just before this call
    tx,           \* the PIO Tx FIFO (command words)
    pend,         \* word held by a blocked pio_sm_put_blocking
    txAtCall,     \* Tx FIFO level when the last engine operation was called
    pushed,       \* words that operation has pushed
    rx,           \* the PIO Rx FIFO (response words)
    exec,         \* the command word the PIO state machine is executing
    wire,         \* the bits the devices send in the coming read slots
    dataOut,      \* what the last read operation stored through its data pointer
    arg,          \* num_bits / num of the last engine operation
    sent,         \* the words that operation has pushed, in order
    got,          \* the words that operation has pulled, in order
    rxAtCall      \* Rx FIFO level when it was called

searchLocals == <<nextdev, current, discrepancy, bit>>
lineCounts == <<nResets, nCmds, nBitReads, nBitWrites, steer, pinDir, gpio>>
engineVars == <<tx, pend, txAtCall, pushed>>
readVars == <<rx, exec, wire, dataOut, arg, sent, got, rxAtCall>>
vars == <<mode, owpInit, present, busChanged, cap, devs, oob, pc, call, ret,
          nextdev, current, discrepancy, bit, sel, presenceSeen,
          nResets, nCmds, nBitReads, nBitWrites, steer, pinDir, gpio, prev,
          tx, pend, txAtCall, pushed,
          rx, exec, wire, dataOut, arg, sent, got, rxAtCall>>

\* ------------------------------------------------------------ bit helpers
Bit(x, i) == (x \div (2 ^ i)) % 2
SetBit(x, i) == IF Bit(x, i) = 1 THEN x ELSE x + 2 ^ i      \* x |= 1ULL << i
ClearBit(x, i) == IF Bit(x, i) = 1 THEN x - 2 ^ i ELSE x    \* x &= ~(1ULL << i)

RomIds == 0 .. (2 ^ RomBits - 1)
Buses == {S \in SUBSET RomIds : Cardinality(S) <= MaxDevices}

\* --------------------------------------------------- the bus (environment)
\* Level of the open-drain line in a read slot of the search: every selected
\* device drives its bit (phase 1) or the complement (phase 2); any device
\* driving 0 pulls the line low, an idle line is pulled up.
LineLevel(s, b, phase) ==
    IF \E d \in s : (IF phase = 1 THEN Bit(d, b) ELSE 1 - Bit(d, b)) = 0
    THEN FALSE ELSE TRUE

\* A device reads a write slot as 1 when the line is released before the
\* low time of a write-0 slot has passed.
SlotIsOne(lowUs) == lowUs < ONE_WIRE_WRITE_0

\* The byte the devices receive from eight write slots, first slot = bit 0.
RECURSIVE SlotsByte(_)
SlotsByte(slots) ==
    IF slots = <<>> THEN 0
    ELSE (IF SlotIsOne(Head(slots)) THEN 1 ELSE 0) + 2 * SlotsByte(Tail(slots))

\* After a reset the devices on the bus enter the search on the search rom
\* command byte and on nothing else.
DevicesSearching(P, slots) == IF SlotsByte(slots) = SEARCH_ROM_CMD THEN P ELSE {}

\* A device stays selected when the bit written equals its own bit.
DeviceSelect(s, b, lowUs) == {d \in s : (Bit(d, b) = 1) = SlotIsOne(lowUs)}

\* The line at the PRESENCE_SAMPLES sample points after a reset pulse: with no
\* device the pull-up keeps it high; devices answer with a presence pulse
\* that begins before sample point k and holds the line low from then on.
PresenceLine(P) ==
    IF P = {} THEN {[i \in 0 .. PRESENCE_SAMPLES - 1 |-> TRUE]}
    ELSE {[i \in 0 .. PRESENCE_SAMPLES - 1 |-> i < k] : k \in 0 .. PRESENCE_SAMPLES - 1}

\* ------------------------------------------------- direct-pin primitives
\* gpio_init hands the pad to the SIO: the pin is under direct control.
init_OneWireBB == "Discovery"

\* found, from the levels seen at the sample points
oneWire_resetBB(samples) ==
    \E i \in 0 .. PRESENCE_SAMPLES - 1 : samples[i] = FALSE

\* bool bit = gpio_get(...)
oneWire_read_bitBB(level) == level

\* The time the pin drives the line low in the write slot of a bit.
oneWire_write_bitBB(b) == IF b THEN ONE_WIRE_WRITE_1 ELSE ONE_WIRE_WRITE_0

\* for (b = 1; b <= 128; b <<= 1): the eight write slots of a byte
oneWire_write_byteBB(data) ==
    [i \in 1 .. 8 |-> IF Bit(data, i - 1) # 0
                      THEN ONE_WIRE_WRITE_1 ELSE ONE_WIRE_WRITE_0]

\* The GPIO calls of the direct-pin primitives, in program order, as pairs:
\* <<"dir_out", 0>> gpio_set_dir(.., GPIO_OUT), <<"dir_in", 0>>
\* gpio_set_dir(.., GPIO_IN), <<"get", 0>> gpio_get, <<"put", v>> gpio_put,
\* <<"init", 0>> gpio_init, <<"wait", us>> busy_wait_us_32(us).
init_OneWireBB_gpio == <<<<"init", 0>>, <<"dir_in", 0>>, <<"put", 0>>>>

\* i when the polling loop is left: the first sample point with the line low
FirstLow(samples) ==
    IF \E i \in 0 .. PRESENCE_SAMPLES - 1 : ~samples[i]
    THEN CHOOSE i \in 0 .. PRESENCE_SAMPLES - 1 :
            ~samples[i] /\ \A k \in 0 .. i - 1 : samples[k]
    ELSE PRESENCE_SAMPLES
RECURSIVE PresencePolls(_, _)
PresencePolls(i, last) ==
    IF i >= PRESENCE_SAMPLES THEN <<>>
    ELSE IF i = last THEN <<<<"get", 0>>>>
    ELSE <<<<"get", 0>>, <<"wait", ONE_WIRE_PRESENCE_CT>>>> \o PresencePolls(i + 1, last)
\* the calls of oneWire_resetBB, by the value of i at the end of the loop
ResetGpio ==
    [i \in 0 .. PRESENCE_SAMPLES |->
        <<<<"dir_out", 0>>, <<"wait", ONE_WIRE_RESET_PULSE>>, <<"dir_in", 0>>,
          <<"wait", ONE_WIRE_PRESENCE_CT>>>>
            \o PresencePolls(0, i)
            \o <<<<"wait", ONE_WIRE_PRESENCE_WAIT
                             - ONE_WIRE_PRESENCE_CT * (PRESENCE_SAMPLES - i)>>>>]
oneWire_resetBB_gpio(samples) == ResetGpio[FirstLow(samples)]

oneWire_write_bitBB_gpio(b) ==
    IF b
    THEN <<<<"dir_out", 0>>, <<"wait", ONE_WIRE_WRITE_1>>, <<"dir_in", 0>>,
           <<"wait", ONE_WIRE_POST_WRITE_1>>>>
    ELSE <<<<"dir_out", 0>>, <<"wait", ONE_WIRE_WRITE_0>>, <<"dir_in", 0>>,
           <<"wait", ONE_WIRE_POST_WRITE_0>>>>

RECURSIVE WriteSlots(_, _)
WriteSlots(data, i) ==
    IF i > 7 THEN <<>>
    ELSE oneWire_write_bitBB_gpio(Bit(data, i) # 0) \o WriteSlots(data, i + 1)
\* the same two sequences, written out in the loop over the bits of the byte
oneWire_write_byteBB_gpio(data) == WriteSlots(data, 0)
\* oneWire_write_byteBB(0xF0)
SearchRomCmdGpio == oneWire_write_byteBB_gpio(SEARCH_ROM_CMD)

oneWire_read_bitBB_sampledriven ==
    <<<<"dir_out", 0>>, <<"get", 0>>, <<"dir_in", 0>>>>

oneWire_read_bitBB_gpio ==
    <<<<"dir_out", 0>>, <<"wait", ONE_WIRE_READ_PULSE>>, <<"dir_in", 0>>,
      <<"wait", ONE_WIRE_READ_SAMPLE>>, <<"get", 0>>, <<"wait", ONE_WIRE_POST_READ>>>>

\* the direction a GPIO call leaves the pin in
GpioDir(op, dir) ==
    IF op[1] = "dir_out" THEN "out"
    ELSE IF op[1] \in {"dir_in", "init"} THEN "in"
    ELSE dir
RECURSIVE DirAfter(_, _)
DirAfter(ops, dir) ==
    IF ops = <<>> THEN dir ELSE DirAfter(Tail(ops), GpioDir(Head(ops), dir))

\* the direction each primitive leaves the pin in, by the direction at its
\* call: its GPIO calls run to the end
PinDirs == {"in", "out"}
init_OneWireBB_dir == [dir \in PinDirs |-> DirAfter(init_OneWireBB_gpio, dir)]
oneWire_resetBB_dir ==
    [i \in 0 .. PRESENCE_SAMPLES |-> [dir \in PinDirs |-> DirAfter(ResetGpio[i], dir)]]
SearchRomCmd_dir == [dir \in PinDirs |-> DirAfter(SearchRomCmdGpio, dir)]
oneWire_read_bitBB_dir == [dir \in PinDirs |-> DirAfter(oneWire_read_bitBB_gpio, dir)]
oneWire_write_bitBB_dir ==
    [b \in BOOLEAN |-> [dir \in PinDirs |-> DirAfter(oneWire_write_bitBB_gpio(b), dir)]]

\* ------------------------------------------------------ oneWire_search_rom
\* int nextdev = 0; uint64_t current = 0; uint64_t discrepancy = 0;
search_rom_locals_static(old) ==
    [nextdev |-> old.nextdev, current |-> 0, discrepancy |-> 0]
search_rom_locals(old) ==
    [nextdev |-> 0, current |-> 0, discrepancy |-> 0]

\* One iteration of  for (bit = 0; bit < 64; bit++):  the decision taken on
\* the two bits read.  wrote is the bit passed to oneWire_write_bitBB, if any.
SearchBitStep_noflag(cur, disc, b, wo1, wo2) ==
    IF wo1 # wo2
    THEN [current |-> IF wo1 THEN SetBit(cur, b) ELSE ClearBit(cur, b),
          discrepancy |-> ClearBit(disc, b), wrote |-> <<wo1>>, fail |-> FALSE]
    ELSE IF ~wo1 /\ ~wo2
    THEN IF Bit(disc, b) # 0
         THEN [current |-> cur, discrepancy |-> disc,
               wrote |-> <<Bit(cur, b) # 0>>, fail |-> FALSE]
         ELSE [current |-> SetBit(cur, b), discrepancy |-> disc,
               wrote |-> <<TRUE>>, fail |-> FALSE]
    ELSE [current |-> cur, discrepancy |-> disc, wrote |-> <<>>, fail |-> TRUE]

SearchBitStep_always1(cur, disc, b, wo1, wo2) ==
    IF wo1 # wo2
    THEN [current |-> SetBit(cur, b),
          discrepancy |-> ClearBit(disc, b), wrote |-> <<wo1>>, fail |-> FALSE]
    ELSE IF ~wo1 /\ ~wo2
    THEN IF Bit(disc, b) # 0
         THEN [current |-> cur, discrepancy |-> disc,
               wrote |-> <<Bit(cur, b) # 0>>, fail |-> FALSE]
         ELSE [current |-> SetBit(cur, b), discrepancy |-> SetBit(disc, b),
               wrote |-> <<TRUE>>, fail |-> FALSE]
    ELSE [current |-> cur, discrepancy |-> disc, wrote |-> <<>>, fail |-> TRUE]

SearchBitStep_nofail(cur, disc, b, wo1, wo2) ==
    IF wo1 # wo2
    THEN [current |-> IF wo1 THEN SetBit(cur, b) ELSE ClearBit(cur, b),
          discrepancy |-> ClearBit(disc, b), wrote |-> <<wo1>>, fail |-> FALSE]
    ELSE IF ~wo1 /\ ~wo2
    THEN IF Bit(disc, b) # 0
         THEN [current |-> cur, discrepancy |-> disc,
               wrote |-> <<Bit(cur, b) # 0>>, fail |-> FALSE]
         ELSE [current |-> SetBit(cur, b), discrepancy |-> SetBit(disc, b),
               wrote |-> <<TRUE>>, fail |-> FALSE]
    ELSE [current |-> SetBit(cur, b), discrepancy |-> disc,
          wrote |-> <<TRUE>>, fail |-> FALSE]

SearchBitStep_zerofirst(cur, disc, b, wo1, wo2) ==
    IF wo1 # wo2
    THEN [current |-> IF wo1 THEN SetBit(cur, b) ELSE ClearBit(cur, b),
          discrepancy |-> ClearBit(disc, b), wrote |-> <<wo1>>, fail |-> FALSE]
    ELSE IF ~wo1 /\ ~wo2
    THEN IF Bit(disc, b) # 0
         THEN [current |-> cur, discrepancy |-> disc,
               wrote |-> <<Bit(cur, b) # 0>>, fail |-> FALSE]
         ELSE [current |-> ClearBit(cur, b), discrepancy |-> SetBit(disc, b),
               wrote |-> <<FALSE>>, fail |-> FALSE]
    ELSE [current |-> cur, discrepancy |-> disc, wrote |-> <<>>, fail |-> TRUE]

SearchBitStep_writeone(cur, disc, b, wo1, wo2) ==
    IF wo1 # wo2
    THEN [current |-> IF wo1 THEN SetBit(cur, b) ELSE ClearBit(cur, b),
          discrepancy |-> ClearBit(disc, b), wrote |-> <<wo1>>, fail |-> FALSE]
    ELSE IF ~wo1 /\ ~wo2
    THEN IF Bit(disc, b) # 0
         THEN [current |-> cur, discrepancy |-> disc,
               wrote |-> <<TRUE>>, fail |-> FALSE]
         ELSE [current |-> SetBit(cur, b), discrepancy |-> SetBit(disc, b),
               wrote |-> <<TRUE>>, fail |-> FALSE]
    ELSE [current |-> cur, discrepancy |-> disc, wrote |-> <<>>, fail |-> TRUE]

SearchBitStep(cur, disc, b, wo1, wo2) ==
    IF wo1 # wo2                                   \* no discrepancy
    THEN [current |-> IF wo1 THEN SetBit(cur, b) ELSE ClearBit(cur, b),
          discrepancy |-> ClearBit(disc, b), wrote |-> <<wo1>>, fail |-> FALSE]
    ELSE IF ~wo1 /\ ~wo2
    THEN IF Bit(disc, b) # 0                       \* was a discrepancy last pass
         THEN [current |-> cur, discrepancy |-> disc,
               wrote |-> <<Bit(cur, b) # 0>>, fail |-> FALSE]
         ELSE [current |-> SetBit(cur, b), discrepancy |-> SetBit(disc, b),
               wrote |-> <<TRUE>>, fail |-> FALSE]
    ELSE [current |-> cur, discrepancy |-> disc, wrote |-> <<>>, fail |-> TRUE]

RECURSIVE DealWithDiscrepancy_nobreak(_, _, _)
DealWithDiscrepancy_nobreak(cur, disc, b) ==
    IF b < 0 THEN [current |-> cur, discrepancy |-> disc, bit |-> b]
    ELSE IF Bit(disc, b) # 0
         THEN IF Bit(cur, b) # 0
              THEN DealWithDiscrepancy_nobreak(ClearBit(cur, b), disc, b - 1)
              ELSE DealWithDiscrepancy_nobreak(cur, ClearBit(disc, b), b - 1)
         ELSE DealWithDiscrepancy_nobreak(cur, disc, b - 1)

\* for (bit = 63; bit >= 0; bit--): the scan after a pass, from position b
\* down; bit is the value of the loop variable when the loop is left.
RECURSIVE DealWithDiscrepancy(_, _, _)
RECURSIVE DealWithDiscrepancy_clearflag(_, _, _)
DealWithDiscrepancy_clearflag(cur, disc, b) ==
    IF b < 0 THEN [current |-> cur, discrepancy |-> disc, bit |-> b]
    ELSE IF Bit(disc, b) # 0
         THEN IF Bit(cur, b) # 0
              THEN [current |-> ClearBit(cur, b), discrepancy |-> ClearBit(disc, b),
                    bit |-> b]
              ELSE DealWithDiscrepancy_clearflag(cur, ClearBit(disc, b), b - 1)
         ELSE DealWithDiscrepancy_clearflag(cur, disc, b - 1)

DealWithDiscrepancy(cur, disc, b) ==
    IF b < 0 THEN [current |-> cur, discrepancy |-> disc, bit |-> b]
    ELSE IF Bit(disc, b) # 0
         THEN IF Bit(cur, b) # 0
              THEN [current |-> ClearBit(cur, b), discrepancy |-> disc, bit |-> b]
              ELSE DealWithDiscrepancy(cur, ClearBit(disc, b), b - 1)
         ELSE DealWithDiscrepancy(cur, disc, b - 1)

Return(r) == pc' = "idle" /\ ret' = r

\* Entry of oneWire_search_rom: init_OneWireBB() and the locals.
SearchCall ==
    /\ pc = "idle"
    /\ LET l == search_rom_locals([nextdev |-> nextdev, current |-> current,
                                   discrepancy |-> discrepancy])
       IN /\ nextdev' = l.nextdev
          /\ current' = l.current
          /\ discrepancy' = l.discrepancy
    /\ mode' = init_OneWireBB
    /\ prev' = IF call.op = "search_rom"
               THEN [valid |-> TRUE, ret |-> ret,
                     ids |-> {devs[i] : i \in 1 .. Len(devs)}, oob |-> oob]
               ELSE [valid |-> FALSE, ret |-> 0, ids |-> {}, oob |-> FALSE]
    /\ call' = [op |-> "search_rom", wait |-> FALSE]
    /\ devs' = <<>>
    /\ oob' = FALSE
    /\ bit' = 0
    /\ sel' = {}
    /\ presenceSeen' = FALSE
    /\ nResets' = 0 /\ nCmds' = 0 /\ nBitReads' = 0 /\ nBitWrites' = 0
    /\ steer' = <<>>
    /\ pinDir' = init_OneWireBB_dir[pinDir]
    /\ UNCHANGED gpio
    /\ ret' = 0
    /\ pc' = "reset"
    /\ UNCHANGED <<owpInit, present, busChanged, cap, engineVars, readVars>>

\* if (!oneWire_resetBB()) return 0;
SearchReset ==
    /\ pc = "reset"
    /\ \E samples \in PresenceLine(present) :
          /\ presenceSeen' = (\E i \in DOMAIN samples : ~samples[i])
          /\ pinDir' = oneWire_resetBB_dir[FirstLow(samples)][pinDir]
          /\ IF oneWire_resetBB(samples)
             THEN pc' = "cmd" /\ ret' = ret
             ELSE Return(0)
    /\ nResets' = nResets + 1
    /\ UNCHANGED <<mode, owpInit, present, busChanged, cap, devs, oob, call,
                   searchLocals, sel, nCmds, nBitReads, nBitWrites, steer, gpio, prev,
                   engineVars, readVars>>

\* oneWire_write_byteBB(0xF0): every device on the bus takes part in the pass
SearchCmd ==
    /\ pc = "cmd"
    /\ sel' = DevicesSearching(present, oneWire_write_byteBB(SEARCH_ROM_CMD))
    /\ bit' = 0
    /\ nCmds' = nCmds + 1
    /\ steer' = <<>>
    /\ pinDir' = SearchRomCmd_dir[pinDir]
    /\ pc' = "bits"
    /\ UNCHANGED <<mode, owpInit, present, busChanged, cap, devs, oob, call, ret,
                   nextdev, current, discrepancy, nResets, nBitReads, nBitWrites,
                   gpio, presenceSeen, prev, engineVars, readVars>>

\* One bit position: two read slots, the decision, the write slot.
SearchBit ==
    /\ pc = "bits"
    /\ bit < RomBits
    /\ LET wo1 == oneWire_read_bitBB(LineLevel(sel, bit, 1))
           wo2 == oneWire_read_bitBB(LineLevel(sel, bit, 2))
           r == SearchBitStep(current, discrepancy, bit, wo1, wo2)
       IN /\ nBitReads' = nBitReads + 2
          /\ IF r.fail
             THEN /\ Return(ONE_WIRE_SEARCH_ROM_FAILURE)
                  /\ pinDir' = oneWire_read_bitBB_dir[oneWire_read_bitBB_dir[pinDir]]
                  /\ UNCHANGED <<current, discrepancy, bit, sel, nBitWrites, steer>>
             ELSE /\ current' = r.current
                  /\ discrepancy' = r.discrepancy
                  /\ sel' = DeviceSelect(sel, bit, oneWire_write_bitBB(r.wrote[1]))
                  /\ nBitWrites' = nBitWrites + 1
                  /\ steer' = Append(steer, r.wrote[1])
                  /\ pinDir' = oneWire_write_bitBB_dir[r.wrote[1]][
                                   oneWire_read_bitBB_dir[oneWire_read_bitBB_dir[pinDir]]]
                  /\ bit' = bit + 1
                  /\ pc' = IF bit + 1 = RomBits THEN "store" ELSE "bits"
                  /\ ret' = ret
    /\ UNCHANGED <<mode, owpInit, present, busChanged, cap, devs, oob, call,
                   nextdev, nResets, nCmds, gpio, presenceSeen, prev, engineVars,
                   readVars>>

\* devs[nextdev] = current; nextdev++; then the discrepancy scan and the
\* loop test.
SearchStore ==
    /\ pc = "store"
    /\ IF nextdev < cap
       THEN devs' = Append(devs, current) /\ oob' = oob
       ELSE devs' = devs /\ oob' = TRUE
    /\ nextdev' = nextdev + 1
    /\ LET r == DealWithDiscrepancy(current, discrepancy, RomBits - 1)
       IN /\ current' = r.current
          /\ discrepancy' = r.discrepancy
          /\ bit' = r.bit
          /\ IF r.bit < 0
             THEN Return(nextdev + 1)
             ELSE pc' = "reset" /\ ret' = ret
    /\ UNCHANGED <<mode, owpInit, present, busChanged, cap, call, sel,
                   presenceSeen, lineCounts, prev, engineVars, readVars>>

\* A device leaves the bus (unplugged, or it loses power).
Unplug ==
    /\ \E d \in present :
          /\ present' = present \ {d}
          /\ sel' = sel \ {d}
    /\ busChanged' = TRUE
    /\ UNCHANGED <<mode, owpInit, cap, devs, oob, pc, call, ret, searchLocals,
                   presenceSeen, lineCounts, prev, engineVars, readVars>>

SearchStep == SearchReset \/ SearchCmd \/ SearchBit \/ SearchStore
SearchNext == SearchCall \/ SearchStep

\* ---------------------------------------------------- transaction engine
\* typedef uint16_t oneWire_status: what a returned int constant becomes
ToStatus(c) == c % STATUS_RANGE

\* data written by the callers of write_byte / write_uint
WriteBytes == {204}
WriteUints == {10280}

\* (data << 6) + (7<<2) + 0x03   and   (data << 6) + (15<<2) + 0x03
WriteByteWord(data) == data * 64 + 7 * 4 + 3
WriteUintWord(data) == data * 64 + 15 * 4 + 3

pio_sm_is_tx_fifo_full == Len(tx) = ONE_WIRE_FIFODEPTH

\* pio_sm_put_blocking followed by return ONE_WIRE_NO_ERROR: the word goes
\* into the Tx FIFO, or the thread spins until the FIFO has room.
PutThenReturn(word) ==
    IF pio_sm_is_tx_fifo_full
    THEN /\ pend' = <<word>>
         /\ pushed' = 0
         /\ sent' = <<>>
         /\ pc' = "put"
         /\ UNCHANGED <<tx, ret>>
    ELSE /\ tx' = Append(tx, word)
         /\ pushed' = 1
         /\ sent' = <<word>>
         /\ pend' = <<>>
         /\ Return(ToStatus(ONE_WIRE_NO_ERROR))

\* return <error> before anything is put
FailFast(err) ==
    /\ pushed' = 0
    /\ sent' = <<>>
    /\ Return(ToStatus(err))
    /\ UNCHANGED <<tx, pend>>

EngineCall(op, wait) ==
    /\ pc = "idle"
    /\ owpInit
    /\ call' = [op |-> op, wait |-> wait]
    /\ txAtCall' = Len(tx)
    /\ rxAtCall' = Len(rx)
    /\ arg' = 0
    /\ dataOut' = <<>>
    /\ got' = <<>>
    /\ UNCHANGED <<mode, owpInit, present, busChanged, cap, devs, oob,
                   searchLocals, sel, presenceSeen, lineCounts, prev,
                   rx, exec, wire>>

oneWire_reset_nocheck(wait) ==
    /\ EngineCall("reset", wait)
    /\ PutThenReturn(RESET_WORD)

oneWire_reset(wait) ==
    /\ EngineCall("reset", wait)
    /\ IF ~wait /\ pio_sm_is_tx_fifo_full
       THEN FailFast(ONE_WIRE_NOT_ENOUGH_TX_FIFO_SPACE)
       ELSE PutThenReturn(RESET_WORD)

oneWire_wait_for_idle(wait) ==
    /\ EngineCall("wait_for_idle", wait)
    /\ IF ~wait /\ pio_sm_is_tx_fifo_full
       THEN FailFast(ONE_WIRE_NOT_ENOUGH_TX_FIFO_SPACE)
       ELSE PutThenReturn(WAIT_FOR_IDLE_WORD)

oneWire_write_byte(data, wait) ==
    /\ EngineCall("write_byte", wait)
    /\ IF ~wait /\ pio_sm_is_tx_fifo_full
       THEN FailFast(ONE_WIRE_NOT_ENOUGH_TX_FIFO_SPACE)
       ELSE PutThenReturn(WriteByteWord(data))

oneWire_write_uint(data, wait) ==
    /\ EngineCall("write_uint", wait)
    /\ IF ~wait /\ pio_sm_is_tx_fifo_full
       THEN FailFast(ONE_WIRE_NOT_ENOUGH_TX_FIFO_SPACE)
       ELSE PutThenReturn(WriteUintWord(data))

\* A blocked pio_sm_put_blocking gets its word in once the FIFO has room.
PutUnblock ==
    /\ pc = "put"
    /\ ~pio_sm_is_tx_fifo_full
    /\ tx' = Append(tx, Head(pend))
    /\ pend' = Tail(pend)
    /\ pushed' = pushed + 1
    /\ sent' = Append(sent, Head(pend))
    /\ Return(ToStatus(ONE_WIRE_NO_ERROR))
    /\ UNCHANGED <<mode, owpInit, present, busChanged, cap, devs, oob, call,
                   searchLocals, sel, presenceSeen, lineCounts, prev, txAtCall,
                   rx, exec, wire, dataOut, arg, got, rxAtCall>>

\* The PIO state machine pulls the next command word and executes it.
PioPull ==
    /\ owpInit
    /\ exec = <<>>
    /\ tx # <<>>
    /\ tx' = Tail(tx)
    /\ exec' = <<Head(tx)>>
    /\ UNCHANGED <<mode, owpInit, present, busChanged, cap, devs, oob, pc, call,
                   ret, searchLocals, sel, presenceSeen, lineCounts, prev, pend,
                   txAtCall, pushed, rx, wire, dataOut, arg, sent, got, rxAtCall>>

\* The PIO state machine finishes the command it holds.  A read command
\* (low two bits 01, bit count - 1 above them) clocks in that many read slots,
\* first bit lowest, and pushes them in the top bits of one response word; it
\* stalls while the Rx FIFO is full.  Nobody drives an idle bus: it reads 1.
IsReadCmd(word) == word % 4 = 1
ReadCmdBits(word) == word \div 4 + 1
SlotBits(w, k) == [i \in 1 .. k |-> IF i <= Len(w) THEN w[i] ELSE 1]
AfterSlots(w, k) == IF k >= Len(w) THEN <<>> ELSE SubSeq(w, k + 1, Len(w))
Response(w, k) ==
    [i \in 1 .. WORD_BITS |->
        IF i > WORD_BITS - k THEN SlotBits(w, k)[i - (WORD_BITS - k)] ELSE 0]

PioExec ==
    /\ exec # <<>>
    /\ IF IsReadCmd(Head(exec))
       THEN /\ Len(rx) < ONE_WIRE_FIFODEPTH
            /\ rx' = Append(rx, Response(wire, ReadCmdBits(Head(exec))))
            /\ wire' = AfterSlots(wire, ReadCmdBits(Head(exec)))
       ELSE UNCHANGED <<rx, wire>>
    /\ exec' = <<>>
    /\ UNCHANGED <<mode, owpInit, present, busChanged, cap, devs, oob, pc, call,
                   ret, searchLocals, sel, presenceSeen, lineCounts, prev,
                   engineVars, dataOut, arg, sent, got, rxAtCall>>

\* ------------------------------------------------------------ read side
\* A response word is its 32 bits, lowest first (rx[1][1] is bit 0).
\* (uint16_t) w
RECURSIVE BitField(_, _, _)
BitField(w, lo, n) == IF n = 0 THEN 0 ELSE w[lo] + 2 * BitField(w, lo + 1, n - 1)
Low16(w) == BitField(w, 1, 16)
\* u.a[k] of union { uint32_t l; uint8_t a[4]; } on the little-endian RP2040
UnionByte(w, k) == BitField(w, 8 * k + 1, 8)
\* u.l >>= n
ShiftRight(w, n) == [i \in 1 .. WORD_BITS |-> IF i + n <= WORD_BITS THEN w[i + n] ELSE 0]

\* (num_bits-1 << 2) + 1
ReadCmdWord(num_bits) == (num_bits - 1) * 4 + 1

\* oneWire_status r = pio_sm_get_blocking(...); return r >> (32-num_bits);
pull_read_data(num_bits, w) ==
    IF WORD_BITS - num_bits >= 16 THEN 0 ELSE Low16(w) \div 2 ^ (WORD_BITS - num_bits)

\* uint8_t arithmetic of oneWire_CRC
RECURSIVE XorBits(_, _, _)
XorBits(a, b, n) ==
    IF n = 0 THEN 0 ELSE ((a + b) % 2) + 2 * XorBits(a \div 2, b \div 2, n - 1)
Xor8(a, b) == XorBits(a, b, 8)
CrcBit_pxor0C(crc, t) ==
    LET c1 == Xor8(crc, t % 2)
        pxor == IF c1 % 2 = 1 THEN 12 ELSE 0
        c2 == Xor8(c1, pxor)
    IN  ((c2 \div 2) + c2 * 128) % 256

CrcBit_norotate(crc, t) ==
    LET c1 == Xor8(crc, t % 2)
        pxor == IF c1 % 2 = 1 THEN CRC_PXOR ELSE 0
        c2 == Xor8(c1, pxor)
    IN  c2 \div 2

\* one pass of the inner loop: the new crc for input bit t & 1
CrcBit(crc, t) ==
    LET c1 == Xor8(crc, t % 2)
        pxor == IF c1 % 2 = 1 THEN CRC_PXOR ELSE 0
        c2 == Xor8(c1, pxor)
    IN  ((c2 \div 2) + c2 * 128) % 256
\* for (j = 0; j < 8; j++) { ...; t >>= 1; }
RECURSIVE CrcBits(_, _, _)
CrcBits(crc, t, j) ==
    IF j >= 8 \/ crc \notin 0 .. 255        \* uint8_t crc
    THEN crc
    ELSE CrcBits(CrcBit(crc, t), t \div 2, j + 1)
CrcByte(crc, t) == CrcBits(crc, t, 0)
\* for (i = 0; i < len; i++) { t = a[i]; ... }   (a[i] of C is a[i + 1] here)
RECURSIVE CrcBytes(_, _, _, _)
CrcBytes(a, len, i, crc) ==
    IF i >= len \/ crc \notin 0 .. 255      \* uint8_t crc
    THEN crc
    ELSE CrcBytes(a, len, i + 1, CrcByte(crc, a[i + 1]))
CrcRun(a, len) == CrcBytes(a, len, 0, 0)
oneWire_CRC(a, len) ==
    IF CrcRun(a, len) # 0 THEN ONE_WIRE_READ_CRC_FAILURE ELSE ONE_WIRE_NO_ERROR

\* the loops of oneWire_push_read_bytes_cmd / oneWire_pull_read_bytes:
\* for (i = 0; i <= num-4; i += 4) ...; remainder = num - i;
FullWords(num) == IF num >= 4 THEN num \div 4 ELSE 0
Remainder(num) == num - 4 * FullWords(num)
ReadBytesCmds_nominus(num) ==
    [i \in 1 .. FullWords(num) |-> 31 * 4 + 1]
        \o (IF Remainder(num) > 0 THEN <<(Remainder(num) * 8) * 4 + 1>> ELSE <<>>)

ReadBytesCmds(num) ==
    [i \in 1 .. FullWords(num) |-> 31 * 4 + 1]
        \o (IF Remainder(num) > 0 THEN <<(Remainder(num) * 8 - 1) * 4 + 1>> ELSE <<>>)
ReadBytesPulls_always(num) == FullWords(num) + 1

ReadBytesPulls(num) == FullWords(num) + (IF Remainder(num) > 0 THEN 1 ELSE 0)
ReadBytesData_noshift(words, num) ==
    [j \in 1 .. num |-> UnionByte(words[(j - 1) \div 4 + 1], (j - 1) % 4)]

\* data[] after the pulls
ReadBytesData(words, num) ==
    [j \in 1 .. num |->
        IF (j - 1) \div 4 < FullWords(num)
        THEN UnionByte(words[(j - 1) \div 4 + 1], (j - 1) % 4)
        ELSE UnionByte(ShiftRight(words[(j - 1) \div 4 + 1],
                                  WORD_BITS - Remainder(num) * 8), (j - 1) % 4)]

\* What the caller sees when a function of type oneWire_status falls off its
\* end without a return statement: the return register holds whatever was
\* left in it, the value just stored or any other 16-bit pattern; the
\* patterns a caller tests for stand for the rest.
StatusCodes ==
    {ONE_WIRE_NO_ERROR, ONE_WIRE_POSSIBLE_FIFO_OVERFLOW,
     ONE_WIRE_NOT_ENOUGH_TX_FIFO_SPACE, ONE_WIRE_NOT_ENOUGH_DATA_IN_RX_FIFO,
     ONE_WIRE_READ_CRC_FAILURE, ONE_WIRE_SEARCH_ROM_FAILURE,
     ONE_WIRE_ILLEGAL_DATA_SIZE_REQ}
NoReturnValue(v) == {ToStatus(c) : c \in StatusCodes} \union {v % STATUS_RANGE}

ReadCall(op, wait, a) ==
    /\ pc = "idle"
    /\ owpInit
    /\ call' = [op |-> op, wait |-> wait]
    /\ arg' = a
    /\ txAtCall' = Len(tx)
    /\ rxAtCall' = Len(rx)
    /\ pushed' = 0
    /\ sent' = <<>>
    /\ got' = <<>>
    /\ dataOut' = <<>>
    /\ UNCHANGED <<mode, owpInit, present, busChanged, cap, devs, oob,
                   searchLocals, sel, presenceSeen, lineCounts, prev,
                   tx, rx, exec, wire>>

\* return <error> before any put or get
ReadFail(err) == Return(ToStatus(err)) /\ pend' = <<>>
\* go on to the pio_sm_put_blocking calls for these words
ReadPush(words) == pc' = "push" /\ pend' = words /\ UNCHANGED ret
\* go on to the pio_sm_get_blocking calls
ReadPull == pc' = "get" /\ pend' = <<>> /\ UNCHANGED ret

oneWire_push_read_cmd_31(num_bits) ==
    /\ ReadCall("push_read_cmd", TRUE, num_bits)
    /\ IF num_bits >= 32 \/ num_bits < 1
       THEN ReadFail(ONE_WIRE_ILLEGAL_DATA_SIZE_REQ)
       ELSE ReadPush(<<ReadCmdWord(num_bits)>>)

oneWire_push_read_cmd(num_bits) ==
    /\ ReadCall("push_read_cmd", TRUE, num_bits)
    /\ IF num_bits > 32 \/ num_bits < 1
       THEN ReadFail(ONE_WIRE_ILLEGAL_DATA_SIZE_REQ)
       ELSE ReadPush(<<ReadCmdWord(num_bits)>>)

oneWire_pull_read_data(num_bits) ==
    /\ ReadCall("pull_read_data", TRUE, num_bits)
    /\ ReadPull

\* oneWire_read_byte / read_uint / read_ulong: the same body for 8/16/32 bits
ReadValue(op, num_bits, wait) ==
    /\ ReadCall(op, wait, num_bits)
    /\ IF ~wait /\ pio_sm_is_tx_fifo_full
       THEN ReadFail(ONE_WIRE_NOT_ENOUGH_TX_FIFO_SPACE)
       ELSE IF num_bits > 32 \/ num_bits < 1
            THEN ReadFail(ONE_WIRE_ILLEGAL_DATA_SIZE_REQ)
            ELSE ReadPush(<<ReadCmdWord(num_bits)>>)
oneWire_read_byte(wait) == ReadValue("read_byte", 8, wait)
oneWire_read_uint(wait) == ReadValue("read_uint", 16, wait)
oneWire_read_ulong(wait) == ReadValue("read_ulong", 32, wait)

\* int a > uint b: pio_sm_get_tx_fifo_level and pio_sm_get_rx_fifo_level
\* return uint, so both sides are converted to 32-bit unsigned and a
\* negative value counts as its value + 2^32
UnsignedGreater(a, b) == IF (a < 0) = (b < 0) THEN a > b ELSE a < 0

oneWire_push_read_bytes_cmd(num, wait) ==
    /\ ReadCall("push_read_bytes_cmd", wait, num)
    /\ IF num > 16
       THEN ReadFail(ONE_WIRE_POSSIBLE_FIFO_OVERFLOW)
       ELSE IF ~wait /\ UnsignedGreater(num + 3, ONE_WIRE_FIFODEPTH - Len(tx) * 4)
            THEN ReadFail(ONE_WIRE_NOT_ENOUGH_TX_FIFO_SPACE)
            ELSE ReadPush(ReadBytesCmds(num))

oneWire_pull_read_bytes_nolimit(num, wait) ==
    /\ ReadCall("pull_read_bytes", wait, num)
    /\ IF ~wait /\ UnsignedGreater(num + 3, Len(rx) * 4)
       THEN ReadFail(ONE_WIRE_NOT_ENOUGH_DATA_IN_RX_FIFO)
       ELSE ReadPull

oneWire_pull_read_bytes(num, wait) ==
    /\ ReadCall("pull_read_bytes", wait, num)
    /\ IF num > 16
       THEN ReadFail(ONE_WIRE_ILLEGAL_DATA_SIZE_REQ)
       ELSE IF ~wait /\ UnsignedGreater(num + 3, Len(rx) * 4)
            THEN ReadFail(ONE_WIRE_NOT_ENOUGH_DATA_IN_RX_FIFO)
            ELSE ReadPull

\* oneWire_push_read_bytes_cmd(num, true), then oneWire_pull_read_bytes(data, num, true)
oneWire_read_bytes(num) ==
    /\ ReadCall("read_bytes", TRUE, num)
    /\ IF num > 16
       THEN ReadFail(ONE_WIRE_POSSIBLE_FIFO_OVERFLOW)
       ELSE ReadPush(ReadBytesCmds(num))

\* the indexes of data[] the two loops of oneWire_pull_read_bytes store to:
\* data[i+k], k < 4, for i = 0, 4, .. <= num-4, then data[i+k], k < remainder
ReadBytesIndexes(num) ==
    {4 * w + k : w \in 0 .. FullWords(num) - 1, k \in 0 .. 3}
        \union {4 * FullWords(num) + k : k \in 0 .. Remainder(num) - 1}

PushOnlyOps == {"push_read_cmd", "push_read_bytes_cmd"}
BytesOps == {"read_bytes", "pull_read_bytes"}
Pulls(op, a) == IF op \in BytesOps THEN ReadBytesPulls(a) ELSE 1

readFrame == <<mode, owpInit, present, busChanged, cap, devs, oob, call,
               searchLocals, sel, presenceSeen, lineCounts, prev, exec, wire,
               arg, txAtCall, rxAtCall>>

\* one pio_sm_put_blocking gets its word into the Tx FIFO
PushStep ==
    /\ pc = "push"
    /\ pend # <<>>
    /\ ~pio_sm_is_tx_fifo_full
    /\ tx' = Append(tx, Head(pend))
    /\ pend' = Tail(pend)
    /\ pushed' = pushed + 1
    /\ sent' = Append(sent, Head(pend))
    /\ UNCHANGED <<pc, ret, rx, got, dataOut>>
    /\ UNCHANGED readFrame

\* every command word is in: return, or go on to the pulls
PushDone ==
    /\ pc = "push"
    /\ pend = <<>>
    /\ IF call.op \in PushOnlyOps
       THEN Return(ToStatus(ONE_WIRE_NO_ERROR))
       ELSE pc' = "get" /\ UNCHANGED ret
    /\ UNCHANGED <<tx, pend, pushed, sent, rx, got, dataOut>>
    /\ UNCHANGED readFrame

\* one pio_sm_get_blocking takes a word from the Rx FIFO
GetStep ==
    /\ pc = "get"
    /\ Len(got) < Pulls(call.op, arg)
    /\ rx # <<>>
    /\ rx' = Tail(rx)
    /\ got' = Append(got, Head(rx))
    /\ UNCHANGED <<pc, ret, tx, pend, pushed, sent, dataOut>>
    /\ UNCHANGED readFrame

\* every word is pulled: store the data and return
GetDone ==
    /\ pc = "get"
    /\ Len(got) = Pulls(call.op, arg)
    /\ pc' = "idle"
    /\ IF call.op = "pull_read_data"
       THEN /\ ret' = pull_read_data(arg, got[1])
            /\ UNCHANGED dataOut
       ELSE IF call.op \in BytesOps
       THEN /\ dataOut' = ReadBytesData(got, arg)
            /\ ret' = ToStatus(oneWire_CRC(dataOut', arg))
       ELSE \* *data = oneWire_pull_read_data(8) & 0xFF, (16) & 0xFFFF, (32):
            \* what pull_read_data returns is below 2^16 already
            /\ dataOut' = <<pull_read_data(arg, got[1]) % 2 ^ (IF arg > 16 THEN 16 ELSE arg)>>
            /\ ret' \in NoReturnValue(dataOut'[1])
    /\ UNCHANGED <<tx, pend, pushed, sent, rx, got>>
    /\ UNCHANGED readFrame

ReadStep == PushStep \/ PushDone \/ GetStep \/ GetDone

ReadOp(nums, pushbits, pullbits) ==
    \/ \E wait \in BOOLEAN :
          \/ oneWire_read_byte(wait)
          \/ oneWire_read_uint(wait)
          \/ oneWire_read_ulong(wait)
          \/ \E num \in nums : oneWire_push_read_bytes_cmd(num, wait)
          \/ \E num \in nums : oneWire_pull_read_bytes(num, wait)
    \/ \E num \in nums : oneWire_read_bytes(num)
    \/ \E num_bits \in pushbits : oneWire_push_read_cmd(num_bits)
    \/ \E num_bits \in pullbits : oneWire_pull_read_data(num_bits)

\* init_OneWire: load the program, claim a state machine and hand the pin to
\* the PIO.  One-shot.
init_OneWire_nohandoff ==
    /\ pc = "idle"
    /\ ~owpInit
    /\ owpInit' = TRUE
    /\ call' = [op |-> "init_OneWire", wait |-> FALSE]
    /\ UNCHANGED <<mode, present, busChanged, cap, devs, oob, pc, ret,
                   searchLocals, sel, presenceSeen, lineCounts, prev, engineVars, readVars>>

init_OneWire ==
    /\ pc = "idle"
    /\ ~owpInit
    /\ owpInit' = TRUE
    /\ mode' = "Offloaded"
    /\ call' = [op |-> "init_OneWire", wait |-> FALSE]
    /\ UNCHANGED <<present, busChanged, cap, devs, oob, pc, ret,
                   searchLocals, sel, presenceSeen, lineCounts, prev, engineVars, readVars>>

EngineOp ==
    \E wait \in BOOLEAN :
        \/ oneWire_reset(wait)
        \/ oneWire_wait_for_idle(wait)
        \/ \E data \in WriteBytes : oneWire_write_byte(data, wait)
        \/ \E data \in WriteUints : oneWire_write_uint(data, wait)

EngineNext == EngineOp \/ PutUnblock \/ PioPull \/ PioExec

\* -------------------------------------------------------- specifications
NoPrev == [valid |-> FALSE, ret |-> 0, ids |-> {}, oob |-> FALSE]

InitWith(buses, caps) ==
    /\ mode = "Discovery"
    /\ owpInit = FALSE
    /\ present \in buses
    /\ busChanged = FALSE
    /\ cap \in caps
    /\ devs = <<>>
    /\ oob = FALSE
    /\ pc = "idle"
    /\ call = [op |-> "none", wait |-> FALSE]
    /\ ret = 0
    /\ nextdev = 0 /\ current = 0 /\ discrepancy = 0 /\ bit = 0
    /\ sel = {}
    /\ presenceSeen = FALSE
    /\ nResets = 0 /\ nCmds = 0 /\ nBitReads = 0 /\ nBitWrites = 0
    /\ steer = <<>> /\ pinDir = "in" /\ gpio = <<>>
    /\ prev = NoPrev
    /\ tx = <<>>
    /\ pend = <<>>
    /\ txAtCall = 0
    /\ pushed = 0
    /\ rx = <<>>
    /\ exec = <<>>
    /\ wire = <<>>
    /\ dataOut = <<>>
    /\ arg = 0
    /\ sent = <<>>
    /\ got = <<>>
    /\ rxAtCall = 0

\* The whole program on a small bus: discovery, the handoff, the engine.
Init == InitWith({{}, {1, 2}}, {2})
Next == SearchNext \/ init_OneWire \/ EngineNext
Spec == Init /\ [][Next]_vars

\* Discovery on every static bus of up to MaxDevices devices.
SearchInit == InitWith(Buses, 1 .. MaxDevices)
SearchSpec == SearchInit /\ [][SearchNext]_vars

\* The same, with the loop of a started search running to its end.
SearchLiveSpec == SearchInit /\ [][SearchNext]_vars /\ WF_vars(SearchStep)

\* Discovery on a bus that devices may leave at any time.
FaultBuses == {S \in SUBSET RomIds : Cardinality(S) <= MaxFaultDevices}
FaultInit == InitWith(FaultBuses, 1 .. MaxFaultDevices)
FaultSpec == FaultInit /\ [][SearchNext \/ Unplug]_vars

\* The engine alone, from init_OneWire called at startup.
EngineInit ==
    /\ InitWith({{}}, {1})
EngineSpec == EngineInit /\ [][init_OneWire \/ EngineNext]_vars

\* The engine after init_OneWire, with what earlier calls left in the FIFOs
\* and what the devices are about to send.
EngineStart(txs, rxs, wires) ==
    /\ mode = "Offloaded"
    /\ owpInit = TRUE
    /\ present = {}
    /\ busChanged = FALSE
    /\ cap = 1
    /\ devs = <<>>
    /\ oob = FALSE
    /\ pc = "idle"
    /\ call = [op |-> "init_OneWire", wait |-> FALSE]
    /\ ret = 0
    /\ nextdev = 0 /\ current = 0 /\ discrepancy = 0 /\ bit = 0
    /\ sel = {}
    /\ presenceSeen = FALSE
    /\ nResets = 0 /\ nCmds = 0 /\ nBitReads = 0 /\ nBitWrites = 0
    /\ steer = <<>> /\ pinDir = "in" /\ gpio = <<>>
    /\ prev = NoPrev
    /\ tx \in txs
    /\ pend = <<>>
    /\ txAtCall = 0
    /\ pushed = 0
    /\ rx \in rxs
    /\ exec = <<>>
    /\ wire \in wires
    /\ dataOut = <<>>
    /\ arg = 0
    /\ sent = <<>>
    /\ got = <<>>
    /\ rxAtCall = 0

\* the arguments of the calls: int num, uint num_bits
CallNums == 0 .. MaxNum
CallBits == 0 .. MaxBits

\* One engine call from every FIFO occupancy: 0..4 commands waiting in the Tx
\* FIFO (resets, or 32-bit reads) and 0..4 responses of reads of the idle bus
\* waiting in the Rx FIFO.
Left(word) == {[i \in 1 .. n |-> word] : n \in 0 .. ONE_WIRE_FIFODEPTH}
CallInit ==
    EngineStart(Left(RESET_WORD) \union Left(ReadCmdWord(WORD_BITS)),
                Left(Response(<<>>, WORD_BITS)), {<<>>})
FirstCall ==
    /\ call.op = "init_OneWire"
    /\ EngineOp \/ ReadOp(CallNums, CallBits, 1 .. WORD_BITS)
CallNext == FirstCall \/ PutUnblock \/ ReadStep \/ PioPull \/ PioExec
CallSpec == CallInit /\ [][CallNext]_vars

\* ---- one read transaction with a device that sends a block of bytes
\* the CRC-8 of the bus (x^8 + x^5 + x^4 + 1), on the running value as eight
\* bits v[0] (lowest) .. v[7]: the input bit is XORed into v[0]; if v[0] is
\* then set, 0x18 (bits 3 and 4) is XORed in; the value is rotated right.
Crc8Bit(v, b) ==
    LET x == [v EXCEPT ![0] = (v[0] + b) % 2]
        y == IF x[0] = 1 THEN [i \in 0 .. 7 |-> IF i \in {3, 4} THEN 1 - x[i] ELSE x[i]]
             ELSE x
    IN  [i \in 0 .. 7 |-> y[(i + 1) % 8]]
RECURSIVE Crc8Bits(_, _, _)
Crc8Bits(bits, i, v) ==
    IF i > Len(bits) \/ v \notin [0 .. 7 -> {0, 1}]
    THEN v
    ELSE Crc8Bits(bits, i + 1, Crc8Bit(v, bits[i]))
\* the bits of a block of bytes in the order of the wire: lowest bit first
BlockBits(block) ==
    [i \in 1 .. 8 * Len(block) |-> (block[(i - 1) \div 8 + 1] \div 2 ^ ((i - 1) % 8)) % 2]
Crc8(block) ==
    LET v == Crc8Bits(BlockBits(block), 1, [i \in 0 .. 7 |-> 0])
    IN  v[0] + 2 * v[1] + 4 * v[2] + 8 * v[3] + 16 * v[4] + 32 * v[5] + 64 * v[6] + 128 * v[7]

\* what the devices send: a payload of up to MaxPayload bytes, or a 64-bit
\* ROM id, a scratchpad, a 16-byte block, followed by its CRC byte or by a
\* corrupted one
PayloadBytes == {0, 40, 255}
Payloads ==
    UNION {[1 .. n -> PayloadBytes] : n \in 0 .. MaxPayload}
        \union {<<40, 255, 100, 30, 15, 0, 0>>,
                <<80, 5, 75, 70, 127, 255, 12, 16>>,
                <<1, 2, 3, 4, 5, 6, 7, 8, 9, 10, 11, 12, 13, 14, 15>>}
Blocks ==
    {Append(p, Crc8(p)) : p \in Payloads}
        \union {Append(p, (Crc8(p) + 1) % 256) : p \in Payloads}
DataInit == EngineStart({<<>>}, {<<>>}, {BlockBits(b) : b \in Blocks})
\* the first call, then the pull that belongs to a push
DataCall ==
    \/ /\ call.op = "init_OneWire"
       /\ ReadOp(CallNums, 1 .. WORD_BITS, {})
    \/ /\ call.op = "push_read_cmd"
       /\ oneWire_pull_read_data(arg)
    \/ /\ call.op = "push_read_bytes_cmd"
       /\ \E wait \in BOOLEAN : oneWire_pull_read_bytes(arg, wait)
DataNext == DataCall \/ ReadStep \/ PioPull \/ PioExec
DataSpec == DataInit /\ [][DataNext]_vars

\* ---- oneWire_CRC on its own: the caller holds a block that a sender ended
\* with the CRC byte of its payload, and runs oneWire_CRC over it
CrcBytesIn == {0, 1, 40, 128, 255}
CrcPayloads ==
    UNION {[1 .. n -> CrcBytesIn] : n \in 0 .. MaxCrcLen} \union Payloads
crcFrame == <<mode, owpInit, present, busChanged, cap, devs, oob, pc,
              searchLocals, sel, presenceSeen, lineCounts, prev, engineVars,
              rx, exec, wire, sent, got, rxAtCall>>
HoldBlock ==
    /\ call.op = "init_OneWire"
    /\ \E p \in CrcPayloads : dataOut' = Append(p, Crc8(p))
    /\ call' = [op |-> "block", wait |-> FALSE]
    /\ UNCHANGED <<ret, arg>>
    /\ UNCHANGED crcFrame
CrcCall ==
    /\ call.op = "block"
    /\ call' = [op |-> "CRC", wait |-> FALSE]
    /\ arg' = Len(dataOut)
    /\ ret' = ToStatus(oneWire_CRC(dataOut, Len(dataOut)))
    /\ UNCHANGED dataOut
    /\ UNCHANGED crcFrame
CrcSpec == EngineStart({<<>>}, {<<>>}, {<<>>}) /\ [][HoldBlock \/ CrcCall]_vars

\* ================================================================ claims
SearchReturned == pc = "idle" /\ call.op = "search_rom"
StoredIds == {devs[i] : i \in 1 .. Len(devs)}

\* Branch points of the binary trie of the ids of S: the pairs (k, prefix of
\* k bits) below which ids of S continue with bit k = 0 and with bit k = 1.
BranchPoints(S) ==
    Cardinality({kp \in (0 .. RomBits - 1) \X RomIds :
                    \E d, e \in S : /\ d % (2 ^ kp[1]) = kp[2]
                                    /\ e % (2 ^ kp[1]) = kp[2]
                                    /\ Bit(d, kp[1]) = 0
                                    /\ Bit(e, kp[1]) = 1})

\* C1: on a static bus of protocol-following devices with distinct ids, a
\* search that has returned has returned the number of devices, and (the
\* caller's array having room for them) devs[0 .. n-1] holds every id of the
\* bus exactly once and nothing else.
C1_SearchFindsEveryDevice ==
    (SearchReturned /\ ~busChanged /\ present # {}) =>
        /\ ret = Cardinality(present)
        /\ cap >= Cardinality(present) =>
              /\ Len(devs) = Cardinality(present)
              /\ StoredIds = present
              /\ ~oob

C1_Witness ==
    /\ SearchReturned /\ ~busChanged
    /\ Cardinality(present) = 3
    /\ cap >= 3
    /\ ret = 3
    /\ StoredIds = present

\* C2: whenever a reset of the search sees no presence pulse, the search
\* returns the count 0, no error code, and has written nothing to devs.
NoPresenceReturn == SearchReturned /\ ~presenceSeen

C2_NoPresenceWritesNothing ==
    NoPresenceReturn => (ret = 0 /\ devs = <<>> /\ ~oob /\ nextdev = 0)

\* C3: with exactly one device on a static bus, whatever its id, the search
\* never sets a discrepancy flag and makes one pass: one reset, one search
\* command, RomBits bit steps (two reads and one write each); it returns 1
\* and devs[0] is the device's id.
C3_SingleDeviceOnePass ==
    (call.op = "search_rom" /\ ~busChanged /\ Cardinality(present) = 1) =>
        /\ discrepancy = 0
        /\ nResets <= 1 /\ nCmds <= 1
        /\ pc = "idle" =>
              /\ nResets = 1 /\ nCmds = 1
              /\ nBitReads = 2 * RomBits /\ nBitWrites = RomBits
              /\ ret = 1
              /\ Len(devs) = 1 /\ {devs[1]} = present

C3_Witness ==
    /\ SearchReturned /\ ~busChanged
    /\ present = {5}
    /\ devs = <<5>>
    /\ ret = 1 /\ nResets = 1

\* Two ids that differ in exactly one bit position.
OneBitApart(a, b) ==
    Cardinality({i \in 0 .. RomBits - 1 : Bit(a, i) # Bit(b, i)}) = 1

TwoOneBitApart(S) ==
    /\ Cardinality(S) = 2
    /\ \A a, b \in S : a # b => OneBitApart(a, b)

\* C4: with exactly two devices whose ids differ in exactly one bit position
\* the search makes exactly two passes, returns 2, and devs[0], devs[1] are
\* the two ids, each stored once.
C4_TwoDevicesTwoPasses ==
    (call.op = "search_rom" /\ ~busChanged /\ TwoOneBitApart(present)) =>
        /\ nResets <= 2 /\ nCmds <= 2
        /\ pc = "idle" =>
              /\ nResets = 2 /\ nCmds = 2
              /\ ret = 2
              /\ cap >= 2 => (Len(devs) = 2 /\ StoredIds = present /\ ~oob)

C4_Witness ==
    /\ SearchReturned /\ ~busChanged
    /\ present = {2, 6}
    /\ cap >= 2
    /\ nCmds = 2 /\ ret = 2
    /\ StoredIds = {2, 6} /\ Len(devs) = 2

\* C5: on a static bus of N >= 1 devices a started search returns, and the
\* passes it has made (search commands issued) number the branch points of
\* the trie of the ids plus one.
C5_PassesAreBranchPointsPlusOne ==
    /\ []((SearchReturned /\ ~busChanged /\ present # {}) =>
             (nCmds = BranchPoints(present) + 1 /\ nResets = nCmds))
    /\ []((pc # "idle") => <>(pc = "idle"))

C5_Witness ==
    /\ SearchReturned /\ ~busChanged
    /\ Cardinality(present) = 3
    /\ BranchPoints(present) = 2
    /\ nCmds = 3

\* C6: a search that follows a search on the same static bus returns the same
\* count and the same set of ids as the one before it.
C6_SearchIsRepeatable ==
    (SearchReturned /\ prev.valid /\ ~busChanged) =>
        /\ ret = prev.ret
        /\ StoredIds = prev.ids
        /\ oob = prev.oob

C6_Witness ==
    /\ SearchReturned /\ prev.valid /\ ~busChanged
    /\ Cardinality(present) = 3 /\ cap >= 3
    /\ ret = 3 /\ prev.ret = 3
    /\ StoredIds = present /\ prev.ids = present

\* C7: a bit step of the search that reads 1 in both slots returns
\* ONE_WIRE_SEARCH_ROM_FAILURE at once: no bit is written, nothing is stored,
\* no count is returned; and the search returns that code only out of such a
\* step (its two reads are the last line activity of the call).
BothReadOne == LineLevel(sel, bit, 1) /\ LineLevel(sel, bit, 2)

C7_FailureStep ==
    (pc = "bits" /\ nBitReads' = nBitReads + 2 /\ BothReadOne) =>
        /\ pc' = "idle"
        /\ ret' = ONE_WIRE_SEARCH_ROM_FAILURE
        /\ nBitWrites' = nBitWrites
        /\ UNCHANGED <<devs, nextdev, current, discrepancy, bit, nResets, nCmds>>

C7_BothOneFailsAtOnce ==
    /\ [][C7_FailureStep]_vars
    /\ []((SearchReturned /\ ret = ONE_WIRE_SEARCH_ROM_FAILURE) =>
             /\ nBitReads = 2 * (nBitWrites + 1)
             /\ BothReadOne
             /\ nResets = nCmds)
    /\ []((SearchReturned /\ ret # ONE_WIRE_SEARCH_ROM_FAILURE) => ret >= 0)

C7_Witness ==
    /\ SearchReturned
    /\ ret = ONE_WIRE_SEARCH_ROM_FAILURE
    /\ Len(devs) = 1
    /\ nResets = 2
    /\ nBitReads = 2 * (nBitWrites + 1)

\* C8: the search never stores to devs[k] with k at or beyond the capacity of
\* the caller's array.
C8_WritesWithinCapacity == ~oob

EngineOps == {"reset", "wait_for_idle", "write_byte", "write_uint"}

C9_RevertStep ==
    (mode = "Offloaded" /\ mode' # "Offloaded") =>
        (pc = "idle" /\ call'.op = "search_rom" /\ pc' = "reset")

C10_NonBlockingPush ==
    (pc = "idle" /\ call.op \in EngineOps /\ ~call.wait) =>
        /\ (ret = ToStatus(ONE_WIRE_NOT_ENOUGH_TX_FIFO_SPACE))
              <=> (txAtCall = ONE_WIRE_FIFODEPTH)
        /\ txAtCall = ONE_WIRE_FIFODEPTH => pushed = 0
        /\ txAtCall < ONE_WIRE_FIFODEPTH =>
              (pushed = 1 /\ ret = ONE_WIRE_NO_ERROR)

C10_Witness ==
    /\ pc = "idle"
    /\ call = [op |-> "write_uint", wait |-> FALSE]
    /\ txAtCall = ONE_WIRE_FIFODEPTH
    /\ ret = ToStatus(ONE_WIRE_NOT_ENOUGH_TX_FIFO_SPACE)
    /\ pushed = 0
    /\ Len(tx) = ONE_WIRE_FIFODEPTH

\* ---- the engine calls as a caller sees them
Returned(ops) == pc = "idle" /\ call.op \in ops
WaitOps ==
    {"reset", "wait_for_idle", "write_byte", "write_uint", "read_byte",
     "read_uint", "read_ulong", "push_read_bytes_cmd", "pull_read_bytes"}
ResourceErrors ==
    {ToStatus(ONE_WIRE_NOT_ENOUGH_TX_FIFO_SPACE),
     ToStatus(ONE_WIRE_NOT_ENOUGH_DATA_IN_RX_FIFO)}

\* C11: an operation called with wait=false that returns
\* NotEnoughTxFifoSpace or NotEnoughDataInRxFifo has pushed no word and
\* pulled no word.
C11_ErrorLeavesQueuesAlone ==
    (Returned(WaitOps) /\ ~call.wait /\ ret \in ResourceErrors)
        => (sent = <<>> /\ got = <<>>)

\* The control thread spins in pio_sm_put_blocking (Tx FIFO full) or in
\* pio_sm_get_blocking (Rx FIFO empty).
WaitsForSpace == (pc = "put" \/ (pc = "push" /\ pend # <<>>)) /\ pio_sm_is_tx_fifo_full
WaitsForData == pc = "get" /\ Len(got) < Pulls(call.op, arg) /\ rx = <<>>

\* C12: an operation called with wait=false never waits for Tx FIFO space
\* or for Rx FIFO data.
C12_NonBlockingNeverWaits ==
    (call.op \in WaitOps /\ ~call.wait) => ~(WaitsForSpace \/ WaitsForData)

\* C13: push_read_cmd(bits) returns IllegalDataSizeRequest with nothing pushed
\* exactly when bits < 1 or bits > 32; for 1 <= bits <= 32 it pushes exactly
\* one read command that carries bits - 1 and returns success.
C13_PushReadCmd ==
    Returned({"push_read_cmd"}) =>
        IF arg < 1 \/ arg > 32
        THEN ret = ToStatus(ONE_WIRE_ILLEGAL_DATA_SIZE_REQ) /\ sent = <<>>
        ELSE /\ ret = ToStatus(ONE_WIRE_NO_ERROR)
             /\ Len(sent) = 1
             /\ IsReadCmd(sent[1])
             /\ sent[1] \div 4 = arg - 1

\* a 32-bit read command, accepted after waiting for room in the Tx FIFO
C13_Witness ==
    /\ Returned({"push_read_cmd"})
    /\ arg = 32
    /\ txAtCall = ONE_WIRE_FIFODEPTH
    /\ sent = <<ReadCmdWord(32)>>

\* a value below 2^31 as a 32-bit word, and floor(w / 2^(32 - bits))
AsWord(v) == [i \in 1 .. WORD_BITS |-> IF i < WORD_BITS THEN (v \div 2 ^ (i - 1)) % 2 ELSE 0]
TopBits(w, bits) ==
    [i \in 1 .. WORD_BITS |-> IF i <= bits THEN w[WORD_BITS - bits + i] ELSE 0]

\* C14: pull_read_data(bits) returns floor(w / 2^(32 - bits)) of the response
\* word w it pulled: the bits read, right-aligned, none lost.
C14_PullReadDataRightAligns ==
    Returned({"pull_read_data"}) => AsWord(ret) = TopBits(got[1], arg)

\* C15: read_bytes(data, n) with 1 <= n <= 16 pushes exactly ceil(n/4) read
\* commands, floor(n/4) of 32 bits and then, if n mod 4 # 0, one of
\* (n mod 4) * 8 bits, and pulls exactly ceil(n/4) response words.
C15_ReadBytesBatches ==
    (Returned({"read_bytes"}) /\ arg \in 1 .. 16) =>
        /\ Len(sent) = (arg + 3) \div 4
        /\ \A i \in 1 .. Len(sent) :
              /\ IsReadCmd(sent[i])
              /\ ReadCmdBits(sent[i]) = IF i <= arg \div 4 THEN 32 ELSE (arg % 4) * 8
        /\ Len(got) = (arg + 3) \div 4

\* a 9-byte scratchpad read: two 32-bit reads and one 8-bit read
C15_Witness ==
    /\ Returned({"read_bytes"})
    /\ arg = 9
    /\ sent = <<ReadCmdWord(32), ReadCmdWord(32), ReadCmdWord(8)>>
    /\ Len(got) = 3

\* C16: for n <= 16, read_bytes returns ReadCrcFailure if and only if the
\* CRC-8 over all n returned bytes, the trailing one included, is nonzero,
\* and success otherwise.
C16_ReadBytesCrcStatus ==
    (Returned({"read_bytes"}) /\ arg <= 16) =>
        /\ Len(dataOut) = arg
        /\ ret = IF Crc8(dataOut) # 0
                 THEN ToStatus(ONE_WIRE_READ_CRC_FAILURE)
                 ELSE ToStatus(ONE_WIRE_NO_ERROR)

\* a 9-byte scratchpad with a good CRC byte is accepted
C16_Witness ==
    /\ Returned({"read_bytes"})
    /\ arg = 9
    /\ SubSeq(dataOut, 1, 8) = <<80, 5, 75, 70, 127, 255, 12, 16>>
    /\ ret = ToStatus(ONE_WIRE_NO_ERROR)

\* the running value of oneWire_CRC after every input bit of the block a
RunningValues(a) ==
    {CrcBits(CrcRun(a, k - 1), a[k], 8 - j) : k \in 1 .. Len(a), j \in 1 .. 8}

\* C17: a block made of any data bytes followed by their CRC-8 byte passes
\* oneWire_CRC, and the running value stays within 0 .. 255.
C17_CrcRoundTrip ==
    call.op = "CRC" =>
        /\ ret = ToStatus(ONE_WIRE_NO_ERROR)
        /\ RunningValues(dataOut) \subseteq 0 .. 255

\* a ROM id with its CRC byte, checked
C17_Witness ==
    /\ call.op = "CRC"
    /\ arg = 8
    /\ SubSeq(dataOut, 1, 7) = <<40, 255, 100, 30, 15, 0, 0>>
    /\ dataOut[8] # 0
    /\ ret = ToStatus(ONE_WIRE_NO_ERROR)

ErrorStatuses == {ToStatus(c) : c \in StatusCodes \ {ONE_WIRE_NO_ERROR}}

\* C18: for num > 16, read_bytes and push_read_bytes_cmd return
\* PossibleFifoOverflow and pull_read_bytes returns an error; nothing is
\* pushed, nothing is pulled and nothing is written to data[].
C18_OversizeRefused ==
    (Returned({"read_bytes", "push_read_bytes_cmd", "pull_read_bytes"}) /\ arg > 16) =>
        /\ IF call.op = "pull_read_bytes"
           THEN ret \in ErrorStatuses
           ELSE ret = ToStatus(ONE_WIRE_POSSIBLE_FIFO_OVERFLOW)
        /\ sent = <<>>
        /\ got = <<>>
        /\ dataOut = <<>>

\* a 17-byte pull refused although the Rx FIFO is full of responses
C18_Witness ==
    /\ Returned({"pull_read_bytes"})
    /\ arg = 17
    /\ call.wait
    /\ rxAtCall = ONE_WIRE_FIFODEPTH
    /\ Len(rx) = ONE_WIRE_FIFODEPTH
    /\ ret = ToStatus(ONE_WIRE_ILLEGAL_DATA_SIZE_REQ)

StatusOps == WaitOps \union {"push_read_cmd", "read_bytes"}

\* C19: the status an operation returns is 0 or the negative error code
\* itself, so that a caller comparing it with the constant finds them equal.
C19_StatusIsTheConstant == Returned(StatusOps) => ret \in StatusCodes

\* C20: read_byte, read_uint and read_ulong return 0 whenever they succeed,
\* that is once they have pushed the read command and stored the response.
C20_ReadValueReturnsZero ==
    (Returned({"read_byte", "read_uint", "read_ulong"}) /\ Len(dataOut) = 1)
        => ret = ToStatus(ONE_WIRE_NO_ERROR)

\* C21: push_read_bytes_cmd(num, false) with 1 <= num <= 16 at Tx level L
\* returns NotEnoughTxFifoSpace if and only if ceil(num/4) > 4 - L, pushing
\* nothing; otherwise it pushes its ceil(num/4) words, which fit in the
\* 4 - L free slots.
C21_PushReadBytesRoomCheck ==
    (Returned({"push_read_bytes_cmd"}) /\ ~call.wait /\ arg \in 1 .. 16) =>
        IF (arg + 3) \div 4 > ONE_WIRE_FIFODEPTH - txAtCall
        THEN ret = ToStatus(ONE_WIRE_NOT_ENOUGH_TX_FIFO_SPACE) /\ sent = <<>>
        ELSE /\ ret # ToStatus(ONE_WIRE_NOT_ENOUGH_TX_FIFO_SPACE)
             /\ Len(sent) = (arg + 3) \div 4
             /\ Len(sent) <= ONE_WIRE_FIFODEPTH - txAtCall

\* C22: pull_read_bytes(data, num, false) with 1 <= num <= 16 at Rx level L
\* returns NotEnoughDataInRxFifo, reading nothing, if and only if
\* L < ceil(num/4); otherwise it pulls the ceil(num/4) words and returns the
\* CRC result.
C22_PullReadBytesDataCheck ==
    (Returned({"pull_read_bytes"}) /\ ~call.wait /\ arg \in 1 .. 16) =>
        IF rxAtCall < (arg + 3) \div 4
        THEN /\ ret = ToStatus(ONE_WIRE_NOT_ENOUGH_DATA_IN_RX_FIFO)
             /\ got = <<>>
             /\ dataOut = <<>>
        ELSE /\ Len(got) = (arg + 3) \div 4
             /\ ret = ToStatus(oneWire_CRC(dataOut, arg))

\* ---- posted reads within the documented limits: at most
\* MAX_OUTSTANDING_READS read requests whose data has not been pulled yet, or
\* one read_bytes of up to 16 bytes, on an engine whose Rx FIFO starts empty
\* and whose Tx FIFO may still hold resets
PostBits == {8, WORD_BITS}
ReadsIn(s) == Cardinality({i \in 1 .. Len(s) : IsReadCmd(s[i])})
\* read requests posted and not yet pulled: waiting in the Tx FIFO, in
\* execution, answered in the Rx FIFO, or about to be put
Outstanding == ReadsIn(tx) + ReadsIn(exec) + Len(rx) + ReadsIn(pend)
PostInit == EngineStart(Left(RESET_WORD), {<<>>}, {<<>>})
PostCall ==
    \/ /\ call.op = "init_OneWire"
       /\ \E num \in 1 .. 16 : oneWire_read_bytes(num)
    \/ /\ call.op \in {"init_OneWire", "push_read_cmd", "pull_read_data"}
       /\ Outstanding < MAX_OUTSTANDING_READS
       /\ \E num_bits \in PostBits : oneWire_push_read_cmd(num_bits)
    \/ /\ call.op \in {"push_read_cmd", "pull_read_data"}
       /\ Outstanding > 0
       /\ \E num_bits \in PostBits : oneWire_pull_read_data(num_bits)
PostNext == PostCall \/ ReadStep \/ PioPull \/ PioExec
\* WF_vars(GetDone) written out, ENABLED <<GetDone>>_vars being its guard (a
\* GetDone step always changes pc)
GetDoneEnabled == pc = "get" /\ Len(got) = Pulls(call.op, arg)
GetDoneFair == []<>(~GetDoneEnabled) \/ []<><<GetDone>>_vars
\* the control thread spins in its blocking put/get and runs on when it is
\* let through; the PIO state machine runs on its own clock
PostSpec ==
    /\ PostInit
    /\ [][PostNext]_vars
    /\ WF_vars(PushStep)
    /\ WF_vars(PushDone)
    /\ WF_vars(GetStep)
    /\ GetDoneFair
    /\ WF_vars(PioPull)
    /\ WF_vars(PioExec)

\* C23: within the documented limits (one read_bytes of 1..16 bytes, or at
\* most 4 outstanding push_read_cmd requests and their pull_read_data
\* calls) every call returns, and the reads not yet pulled never exceed the 4
\* words of the Rx FIFO.
C23_NoCallHangs ==
    /\ [](Outstanding <= ONE_WIRE_FIFODEPTH)
    /\ (pc # "idle") ~> (pc = "idle")

\* a 16-byte read_bytes behind a full Tx FIFO has returned with its 4 words
C23_Witness ==
    /\ Returned({"read_bytes"})
    /\ arg = 16
    /\ txAtCall = ONE_WIRE_FIFODEPTH
    /\ Len(got) = ONE_WIRE_FIFODEPTH
    /\ Len(dataOut) = 16

\* a comes before b when the bit sequences (bit 0 first) are compared and a 1
\* counts as greater: at the first position where they differ a has the 1
LexGreater(a, b) ==
    \E i \in 0 .. RomBits - 1 :
        /\ Bit(a, i) = 1
        /\ Bit(b, i) = 0
        /\ \A k \in 0 .. i - 1 : Bit(a, k) = Bit(b, k)
\* the devices that agree with id on every bit below position b
SameBelow(id, b) == {d \in present : \A k \in 0 .. b - 1 : Bit(d, k) = Bit(id, k)}

\* C24: on a static bus the ids are stored in devs in strictly decreasing
\* lexicographic order of their bit sequences (bit 0 first), and the first id
\* stored has a 1 wherever the devices still selected disagree.
C24_OneBranchFirst ==
    call.op = "search_rom" =>
        /\ \A i \in 1 .. Len(devs) - 1 : LexGreater(devs[i], devs[i + 1])
        /\ devs # <<>> =>
              \A b \in 0 .. RomBits - 1 :
                  (\E d, e \in SameBelow(devs[1], b) : Bit(d, b) # Bit(e, b))
                      => Bit(devs[1], b) = 1

\* three devices found in an order that is not the numeric one: 3 (bits 110),
\* then 1 (100), then 6 (011)
C24_Witness ==
    /\ Returned({"search_rom"})
    /\ present = {1, 3, 6}
    /\ devs = <<3, 1, 6>>
    /\ ret = 3

\* the flagged positions whose bit of current is 1, and the highest of a set
FlaggedOnes(cur, disc) ==
    {b \in 0 .. RomBits - 1 : Bit(disc, b) = 1 /\ Bit(cur, b) = 1}
Highest(S) == CHOOSE b \in S : \A c \in S : c <= b

\* the step that stores an id and scans the discrepancy flags
C26_ScanStep ==
    pc = "store" =>
        IF FlaggedOnes(current, discrepancy) = {}
        THEN /\ pc' = "idle"
             /\ discrepancy' = 0
             /\ current' = current
        ELSE LET p == Highest(FlaggedOnes(current, discrepancy))
             IN  /\ pc' = "reset"
                 /\ bit' = p
                 /\ \A b \in 0 .. RomBits - 1 :
                       /\ Bit(current', b) = IF b = p THEN 0 ELSE Bit(current, b)
                       /\ Bit(discrepancy', b) =
                             IF b > p THEN 0 ELSE Bit(discrepancy, b)
                 /\ Bit(discrepancy', p) = 1

\* C26: the scan after a pass clears the flags above the highest flagged
\* position p whose bit of current is 1, clears that bit of current, keeps
\* the flag at p and everything below p; the search ends exactly when there is
\* no such p, and then no flag remains.
C26_ScanBacktracksAtHighestOne == [][C26_ScanStep]_vars

\* after the second pass on the bus {1, 3, 6}: the flag at position 1 (bit of
\* current 0) is cleared, position 0 is turned from 1 to 0 and stays flagged
C26_Witness ==
    /\ present = {1, 3, 6}
    /\ pc = "reset"
    /\ devs = <<3, 1>>
    /\ current = 0
    /\ discrepancy = 1
    /\ bit = 0

\* the bits the devices put on the line in the first k read slots of a
\* transfer that starts with the bits w to send (an idle line reads 1)
FirstSlots(w, k) == [i \in 1 .. k |-> IF i <= Len(w) THEN w[i] ELSE 1]

\* C27: pull_read_bytes stores the n bytes in bus order: data[j] is the j-th
\* byte received; byte k of the i-th full word goes to data[4i+k], the r bytes
\* of a final partial word are taken from its top r*8 bits; no index >= n is
\* written.
C27_BytesInBusOrder ==
    (Returned(BytesOps) /\ arg \in 1 .. 16 /\ Len(got) = (arg + 3) \div 4) =>
        /\ DOMAIN dataOut = 1 .. arg
        /\ ReadBytesIndexes(arg) = 0 .. arg - 1
        /\ \E b \in Blocks :
              /\ BlockBits(dataOut) = FirstSlots(BlockBits(b), 8 * arg)
              /\ wire = AfterSlots(BlockBits(b), 8 * arg)
        /\ \A j \in 0 .. arg - 1 :
              dataOut[j + 1] =
                  IF j \div 4 < arg \div 4
                  THEN BitField(got[j \div 4 + 1], 8 * (j % 4) + 1, 8)
                  ELSE BitField(got[j \div 4 + 1],
                                WORD_BITS - 8 * (arg % 4) + 8 * (j % 4) + 1, 8)

\* the first 7 bytes of a ROM id pulled after push_read_bytes_cmd(7): one
\* full word and a partial word of 3 bytes
C27_Witness ==
    /\ Returned({"pull_read_bytes"})
    /\ arg = 7
    /\ Len(got) = 2
    /\ dataOut = <<40, 255, 100, 30, 15, 0, 0>>
    /\ Len(wire) = 8

\* the number whose bit i is the (i+1)-th element of a sequence of booleans
RECURSIVE BitsValue(_)
BitsValue(bits) ==
    IF bits = <<>> THEN 0
    ELSE (IF Head(bits) THEN 1 ELSE 0) + 2 * BitsValue(Tail(bits))
Collision == ~LineLevel(sel, bit, 1) /\ ~LineLevel(sel, bit, 2)

\* a bit position of a pass that ends with a write slot
C25_BitStep ==
    (pc = "bits" /\ pc' # "idle") =>
        /\ steer' = Append(steer, Bit(current', bit) = 1)
        /\ \A b \in (0 .. RomBits - 1) \ {bit} :
              /\ Bit(current', b) = Bit(current, b)
              /\ Bit(discrepancy', b) = Bit(discrepancy, b)
        /\ IF LineLevel(sel, bit, 1) # LineLevel(sel, bit, 2)
           THEN /\ (Bit(current', bit) = 1) = LineLevel(sel, bit, 1)
                /\ Bit(discrepancy', bit) = 0
           ELSE /\ Collision
                /\ IF Bit(discrepancy, bit) = 1
                   THEN current' = current /\ discrepancy' = discrepancy
                   ELSE Bit(current', bit) = 1 /\ Bit(discrepancy', bit) = 1
\* the end of a pass
C25_StoreStep ==
    pc = "store" =>
        /\ Len(steer) = RomBits
        /\ current = BitsValue(steer)
        /\ nextdev < cap => devs' = Append(devs, BitsValue(steer))

\* C25: at every bit position of every pass the bit written to the bus is
\* that bit of current after the step (set to wo1 with the flag cleared when
\* wo1 # wo2; current and flag unchanged on a collision at a flagged position;
\* set to 1 with the flag set on a collision at an unflagged position), and the
\* id stored at the end of the pass is made of the bits written in the pass.
C25_WrittenBitIsCurrentBit == [][C25_BitStep /\ C25_StoreStep]_vars

\* the second pass on the bus {1, 3, 6} has written 1 at the flagged
\* position 0, 0 at the flagged position 1 and the 0 that the one device
\* left sends at position 2: the id 1 is about to be stored
C25_Witness ==
    /\ present = {1, 3, 6}
    /\ pc = "store"
    /\ devs = <<3>>
    /\ steer = <<TRUE, FALSE, FALSE>>
    /\ current = 1
    /\ discrepancy = 3

\* ---- the direct-pin primitives one GPIO call at a time, called on their
\* own in any order or by oneWire_search_rom, on a bus with no device or with
\* one that may leave it
PinBuses == {{}, {1}}
PinBytes == {SEARCH_ROM_CMD}
PinInit == InitWith(PinBuses, {1})
PinCall(name, ops) ==
    /\ pc = "idle"
    /\ gpio = <<>>
    /\ gpio' = ops
    /\ call' = [op |-> name, wait |-> FALSE]
    /\ UNCHANGED <<mode, owpInit, present, busChanged, cap, devs, oob, pc, ret,
                   searchLocals, sel, presenceSeen, nResets, nCmds, nBitReads,
                   nBitWrites, steer, pinDir, prev, engineVars, readVars>>
PinPrimitive ==
    \/ PinCall("init_OneWireBB", init_OneWireBB_gpio)
    \/ \E samples \in PresenceLine(present) :
          PinCall("oneWire_resetBB", oneWire_resetBB_gpio(samples))
    \/ \E data \in PinBytes :
          PinCall("oneWire_write_byteBB", oneWire_write_byteBB_gpio(data))
    \/ PinCall("oneWire_read_bitBB", oneWire_read_bitBB_gpio)
    \/ \E b \in BOOLEAN : PinCall("oneWire_write_bitBB", oneWire_write_bitBB_gpio(b))
\* the next GPIO call of the running primitive
GpioStep ==
    /\ gpio # <<>>
    /\ pinDir' = GpioDir(Head(gpio), pinDir)
    /\ mode' = IF Head(gpio)[1] = "init" THEN init_OneWireBB ELSE mode
    /\ gpio' = Tail(gpio)
    /\ UNCHANGED <<owpInit, present, busChanged, cap, devs, oob, pc, call, ret,
                   searchLocals, sel, presenceSeen, nResets, nCmds, nBitReads,
                   nBitWrites, steer, prev, engineVars, readVars>>
\* one thread: the search runs between primitives called on their own
SearchBetween == gpio = <<>> /\ SearchNext
PinNext == PinPrimitive \/ GpioStep \/ SearchBetween \/ Unplug
PinSpec == PinInit /\ [][PinNext]_vars

\* C28: between direct-pin primitives the pin is an input: on return from
\* init_OneWireBB, oneWire_resetBB, oneWire_write_byteBB, oneWire_write_bitBB
\* and oneWire_read_bitBB, hence on every return of oneWire_search_rom; and
\* gpio_get is called only while the pin is an input.
C28_PinReleased ==
    /\ gpio = <<>> => pinDir = "in"
    /\ (gpio # <<>> /\ Head(gpio)[1] = "get") => pinDir = "in"

\* oneWire_read_bitBB has driven the line, released it, sampled and returned
C28_Witness ==
    /\ call.op = "oneWire_read_bitBB"
    /\ gpio = <<>>
    /\ pinDir = "in"

====
